---------------------------- MODULE Spec2Model ----------------------------
(***************************************************************************)
(* Model of the personal library manager (src/index.py): the CSV store,    *)
(* the seven command handlers and the menu loop.                           *)
(*                                                                         *)
(* Text is a sequence of one-character strings, so that strip(), lower(),  *)
(* substring tests, int(), float() and str() are computed and not assumed. *)
(* A Python value is a tagged record (Str, Int, PyNone); a dict is a         *)
(* function from a subset of the field names to Python values.  The store  *)
(* is kept at the level of the field texts of its rows: the csv module's   *)
(* quoting of five-field rows is lossless, what is modelled of it is the   *)
(* str() conversion of each value and the default for a missing key.       *)
(***************************************************************************)
EXTENDS Integers, Sequences, FiniteSets, TLC

VARIABLES
    library,    \* library.csv: [exists, rows], rows a sequence of field texts
    file,       \* the user-chosen export/import file: [kind, objs, lines]
    exported,   \* history: the rows of the store when export_library wrote file
    pc,         \* where the program waits for input
    input,      \* the raw lines read by the last step
    stdout,     \* what the last step printed: [msg, n, listing, oldest, newest]
    books,      \* local of add_book / delete_book: the loaded list
    title,      \* locals of add_book
    author,
    year,
    genre,
    search_term, \* locals of delete_book
    matches

vars == <<library, file, exported, pc, input, stdout, books, title, author, year, genre,
          search_term, matches>>

-----------------------------------------------------------------------------
(* Bounds of the model *)

MaxBooks == 2

-----------------------------------------------------------------------------
(* Text *)

Fields == {"Title", "Author", "Year", "Genre", "Rating"}

UpperCase == <<"A","B","C","D","E","F","G","H","I","J","K","L","M",
               "N","O","P","Q","R","S","T","U","V","W","X","Y","Z">>
LowerCase == <<"a","b","c","d","e","f","g","h","i","j","k","l","m",
               "n","o","p","q","r","s","t","u","v","w","x","y","z">>
Digits == <<"0","1","2","3","4","5","6","7","8","9">>

IsUpper(c) == \E i \in DOMAIN UpperCase : UpperCase[i] = c
IsDigit(c) == \E i \in DOMAIN Digits : Digits[i] = c
DigitVal(c) == (CHOOSE i \in DOMAIN Digits : Digits[i] = c) - 1

LowerChar(c) ==
    IF IsUpper(c) THEN LowerCase[CHOOSE i \in DOMAIN UpperCase : UpperCase[i] = c]
    ELSE c

\* str.lower()
Lower(s) == [i \in 1..Len(s) |-> LowerChar(s[i])]

\* str.strip(): leading and trailing blanks removed
RECURSIVE LStrip(_)
LStrip(s) == IF s # <<>> /\ Head(s) = " " THEN LStrip(Tail(s)) ELSE s
RECURSIVE RStrip(_)
RStrip(s) ==
    IF s # <<>> /\ s[Len(s)] = " " THEN RStrip(SubSeq(s, 1, Len(s) - 1)) ELSE s
Strip(s) == LStrip(RStrip(s))

\* sub in s
Contains(sub, s) ==
    \E i \in 0..(Len(s) - Len(sub)) : SubSeq(s, i + 1, i + Len(sub)) = sub

\* s.startswith(p)
StartsWith(s, p) == Len(s) >= Len(p) /\ SubSeq(s, 1, Len(p)) = p

\* s.split(','): the pieces between the commas, empty pieces kept
RECURSIVE Split(_)
Split(s) ==
    IF \A i \in DOMAIN s : s[i] # ","
    THEN <<s>>
    ELSE LET k == CHOOSE i \in DOMAIN s :
                      s[i] = "," /\ \A j \in 1..(i - 1) : s[j] # ","
         IN <<SubSeq(s, 1, k - 1)>> \o Split(SubSeq(s, k + 1, Len(s)))

RECURSIVE DigitsVal(_)
DigitsVal(s) ==
    IF s = <<>> THEN 0
    ELSE DigitsVal(SubSeq(s, 1, Len(s) - 1)) * 10 + DigitVal(s[Len(s)])

AllDigits(s) == s # <<>> /\ \A i \in DOMAIN s : IsDigit(s[i])

\* int(s): blanks stripped, an optional sign, decimal digits; ok = FALSE is
\* ValueError.  (The underscores int() allows between digits are left out.)
ParseInt(s) ==
    LET t == Strip(s)
        signed == t # <<>> /\ Head(t) \in {"+", "-"}
        d == IF signed THEN Tail(t) ELSE t
    IN IF AllDigits(d)
       THEN [ok |-> TRUE,
             val |-> IF signed /\ Head(t) = "-" THEN 0 - DigitsVal(d)
                     ELSE DigitsVal(d)]
       ELSE [ok |-> FALSE, val |-> 0]

RECURSIVE NatToStr(_)
NatToStr(n) ==
    IF n < 10 THEN <<Digits[n + 1]>>
    ELSE NatToStr(n \div 10) \o <<Digits[(n % 10) + 1]>>

\* str(n) of an int
IntToStr(n) == IF n < 0 THEN <<"-">> \o NatToStr(0 - n) ELSE NatToStr(n)

\* float(s) for plain decimal notation with at most one fractional digit:
\* the value is mag/10, negated when neg (so -0.0 keeps its sign); ok = FALSE
\* is ValueError
ParseFloat(s) ==
    LET t == Strip(s)
        signed == t # <<>> /\ Head(t) \in {"+", "-"}
        neg == signed /\ Head(t) = "-"
        d == IF signed THEN Tail(t) ELSE t
        hasDot == \E i \in DOMAIN d : d[i] = "."
        k == IF hasDot THEN CHOOSE i \in DOMAIN d : d[i] = "." ELSE Len(d) + 1
        ip == SubSeq(d, 1, k - 1)
        fp == SubSeq(d, k + 1, Len(d))
        wellFormed == /\ ip \o fp # <<>>
                      /\ \A i \in DOMAIN ip : IsDigit(ip[i])
                      /\ \A i \in DOMAIN fp : IsDigit(fp[i])
                      /\ Len(fp) <= 1
    IN IF wellFormed
       THEN [ok |-> TRUE, neg |-> neg,
             mag |-> DigitsVal(ip) * 10 + DigitsVal(fp)]
       ELSE [ok |-> FALSE, neg |-> FALSE, mag |-> 0]

\* str(x) of a float with one fractional digit
FloatToStr(x) ==
    (IF x.neg THEN <<"-">> ELSE <<>>)
        \o NatToStr(x.mag \div 10) \o <<".">> \o <<Digits[(x.mag % 10) + 1]>>

-----------------------------------------------------------------------------
(* Python values and the storage adapter *)

PyStr(s) == [t |-> "str", s |-> s, n |-> 0]
PyInt(n) == [t |-> "int", s |-> <<>>, n |-> n]
PyNone == [t |-> "none", s |-> <<>>, n |-> 0]

\* what csv.writer writes for a value: PyNone as '', anything else as str()
CsvField(v) ==
    CASE v.t = "str" -> v.s
      [] v.t = "int" -> IntToStr(v.n)
      [] OTHER -> <<>>

\* DictWriter.writerow: the five fields in order, '' for a missing key
CsvRow(book) ==
    [k \in Fields |-> IF k \in DOMAIN book THEN CsvField(book[k]) ELSE <<>>]

\* DictReader: every field of a row is a string
DictFromRow(row) == [k \in Fields |-> PyStr(row[k])]

NoStore == [exists |-> FALSE, rows |-> <<>>]

\* load_books: the list it returns
load_books(lib) ==
    IF lib.exists THEN [i \in 1..Len(lib.rows) |-> DictFromRow(lib.rows[i])]
    ELSE <<>>

\* a load_books that opens the store for writing whether or not it exists
StoreAfterLoadTruncating(lib) == [exists |-> TRUE, rows |-> <<>>]

\* load_books: the store it leaves (an absent store is created, header only)
StoreAfterLoad(lib) ==
    IF lib.exists THEN lib ELSE [exists |-> TRUE, rows |-> <<>>]

\* save_books: header and one row per book, a full overwrite
save_books(bs) ==
    [exists |-> TRUE, rows |-> [i \in 1..Len(bs) |-> CsvRow(bs[i])]]

\* datetime.now().year
CurrentYear == 2026

\* what a step prints, prompts and menu left out: the message, the count in it
\* and the records listed
Out(m, k) == [msg |-> m, n |-> k, listing |-> <<>>, oldest |-> <<>>, newest |-> <<>>]
OutList(m, k, l) ==
    [msg |-> m, n |-> k, listing |-> l, oldest |-> <<>>, newest |-> <<>>]

NoFile == [kind |-> "absent", objs |-> <<>>, lines |-> <<>>]

-----------------------------------------------------------------------------
(* A handler returns to the menu loop.  The locals keep the values the last *)
(* handler that has them left in them; the next one assigns before it      *)
(* reads.                                                                   *)

Return == pc' = "menu"

AddLocals == <<title, author, year, genre>>
DeleteLocals == <<search_term, matches>>

In(b, l) == \E i \in DOMAIN l : l[i] = b

-----------------------------------------------------------------------------
(* add_book *)

\* menu choice 1: the store is loaded and the title is asked for
AddBegin ==
    /\ pc = "menu"
    /\ Len(load_books(library)) < MaxBooks
    /\ input' = << <<"1">> >>
    /\ books' = load_books(library)
    /\ library' = StoreAfterLoad(library)
    /\ pc' = "add_title"
    /\ stdout' = Out("", 0)
    /\ UNCHANGED <<file, exported, title, author, year, genre, search_term, matches>>

AddTitle(inp) ==
    /\ pc = "add_title"
    /\ input' = <<inp>>
    /\ title' = Strip(inp)
    /\ IF Strip(inp) = <<>>
       THEN pc' = "add_title" /\ stdout' = Out("Title is required.", 0)
       ELSE pc' = "add_author" /\ stdout' = Out("", 0)
    /\ UNCHANGED <<library, file, exported, books, author, year, genre, search_term, matches>>

AddAuthor(inp) ==
    /\ pc = "add_author"
    /\ input' = <<inp>>
    /\ author' = Strip(inp)
    /\ IF Strip(inp) = <<>>
       THEN /\ pc' = "add_author" /\ stdout' = Out("Author is required.", 0)
            /\ UNCHANGED year
       ELSE /\ pc' = "add_year" /\ stdout' = Out("", 0)
            /\ year' = PyStr(<<>>)
    /\ UNCHANGED <<library, file, exported, books, title, genre, search_term, matches>>

\* one pass of the year loop: the value left in `year` and whether it breaks
YearStep(cur, inp) ==
    LET year_input == Strip(inp)
        p == ParseInt(year_input)
    IN IF year_input = <<>>
       THEN [year |-> cur, brk |-> TRUE, msg |-> ""]
       ELSE IF ~p.ok
       THEN [year |-> cur, brk |-> FALSE,
             msg |-> "Please enter a valid integer for the year."]
       ELSE IF p.val < 0 \/ p.val > CurrentYear
       THEN [year |-> PyInt(p.val), brk |-> FALSE, msg |-> "Year must be between"]
       ELSE [year |-> PyStr(IntToStr(p.val)), brk |-> TRUE, msg |-> ""]

AddYear(inp) ==
    /\ pc = "add_year"
    /\ input' = <<inp>>
    /\ LET r == YearStep(year, inp)
       IN /\ year' = r.year
          /\ pc' = IF r.brk THEN "add_genre" ELSE "add_year"
          /\ stdout' = Out(r.msg, 0)
    /\ UNCHANGED <<library, file, exported, books, title, author, genre, search_term, matches>>

\* one pass of the rating loop: rating stays '' until an accepted value breaks
RatingStep(inp) ==
    LET rating_input == Strip(inp)
        v == ParseFloat(rating_input)
    IN IF rating_input = <<>>
       THEN [rating |-> PyStr(<<>>), brk |-> TRUE, msg |-> ""]
       ELSE IF ~v.ok
       THEN [rating |-> PyStr(<<>>), brk |-> FALSE,
             msg |-> "Please enter a valid number for the rating."]
       ELSE IF (v.mag = 0 \/ ~v.neg) /\ v.mag <= 50
       THEN [rating |-> PyStr(FloatToStr(v)), brk |-> TRUE, msg |-> ""]
       ELSE [rating |-> PyStr(<<>>), brk |-> FALSE,
             msg |-> "Rating must be between 0 and 5."]

NewBook(t, a, y, g, r) ==
    [Title |-> PyStr(t), Author |-> PyStr(a), Year |-> y, Genre |-> PyStr(g),
     Rating |-> r]

AddGenre(inp) ==
    /\ pc = "add_genre"
    /\ input' = <<inp>>
    /\ genre' = Strip(inp)
    /\ pc' = "add_rating"
    /\ stdout' = Out("", 0)
    /\ UNCHANGED <<library, file, exported, books, title, author, year, search_term, matches>>

\* one pass of the rating loop; on break the record is appended and saved and
\* add_book returns, its locals gone
AddRating(inp) ==
    /\ pc = "add_rating"
    /\ input' = <<inp>>
    /\ LET r == RatingStep(inp)
       IN IF r.brk
          THEN /\ books' = Append(books,
                                   NewBook(title, author, year, genre, r.rating))
               /\ library' = save_books(books')
               /\ stdout' = Out("added successfully!", 0)
               /\ Return
               /\ UNCHANGED <<file, exported, AddLocals, DeleteLocals>>
          ELSE /\ stdout' = Out(r.msg, 0)
               /\ pc' = "add_rating"
               /\ UNCHANGED <<library, file, exported, books, title, author, year, genre,
                              search_term, matches>>

-----------------------------------------------------------------------------
(* list_books, search_books *)

\* menu choice 2
list_books ==
    /\ pc = "menu"
    /\ input' = << <<"2">> >>
    /\ library' = StoreAfterLoad(library)
    /\ books' = load_books(library)
    /\ stdout' = IF books' = <<>> THEN Out("Your library is empty.", 0)
                 ELSE OutList("Total books:", Len(books'), books')
    /\ Return
    /\ UNCHANGED <<file, exported, AddLocals, DeleteLocals>>

\* the search term is in one of the five fields, case folded
SearchMatch(term, book) ==
    \/ Contains(term, Lower(book.Title.s))
    \/ Contains(term, Lower(book.Author.s))
    \/ Contains(term, Lower(book.Year.s))
    \/ Contains(term, Lower(book.Genre.s))
    \/ Contains(term, Lower(book.Rating.s))

\* menu choice 3
search_books(inp) ==
    /\ pc = "menu"
    /\ input' = << <<"3">>, inp >>
    /\ library' = StoreAfterLoad(library)
    /\ search_term' = Lower(Strip(inp))
    /\ books' = load_books(library)
    /\ LET Test(b) == SearchMatch(search_term', b)
       IN matches' = SelectSeq(books', Test)
    /\ stdout' = IF matches' = <<>> THEN Out("No matching books found.", 0)
                 ELSE OutList("Found", Len(matches'), matches')
    /\ Return
    /\ UNCHANGED <<file, exported, AddLocals>>

-----------------------------------------------------------------------------
(* delete_book *)

\* a delete that matches the way search does, on any field
TitleMatchesAnyField(bs, term) ==
    LET Test(b) == SearchMatch(term, b)
    IN SelectSeq(bs, Test)

\* matches = [book for book in books if search_term in book['Title'].lower()]
TitleMatches(bs, term) ==
    LET Test(b) == Contains(term, Lower(b.Title.s))
    IN SelectSeq(bs, Test)

\* a delete by position: books.remove(b) for each b of to_delete, which takes
\* out one copy at a time
RECURSIVE WithoutOneEach(_, _)
WithoutOneEach(bs, to_delete) ==
    IF to_delete = <<>> THEN bs
    ELSE IF ~In(Head(to_delete), bs) THEN WithoutOneEach(bs, Tail(to_delete))
    ELSE LET k == CHOOSE i \in DOMAIN bs :
                      bs[i] = Head(to_delete) /\ \A j \in 1..(i - 1) : bs[j] # bs[i]
         IN WithoutOneEach(SubSeq(bs, 1, k - 1) \o SubSeq(bs, k + 1, Len(bs)),
                           Tail(to_delete))

\* [book for book in books if book not in to_delete]
Without(bs, to_delete) ==
    LET Test(b) == ~In(b, to_delete)
    IN SelectSeq(bs, Test)

\* menu choice 4, up to the first selection prompt
DeleteBegin(inp) ==
    /\ pc = "menu"
    /\ input' = << <<"4">>, inp >>
    /\ library' = StoreAfterLoad(library)
    /\ books' = load_books(library)
    /\ search_term' = Lower(Strip(inp))
    /\ matches' = TitleMatches(books', search_term')
    /\ IF matches' = <<>>
       THEN /\ stdout' = Out("No books found with that title.", 0)
            /\ Return
       ELSE /\ stdout' = OutList("Matching books:", 0, matches')
            /\ pc' = "del_choice"
    /\ UNCHANGED <<file, exported, AddLocals>>

\* a parse that drops the tokens int() rejects instead of raising
ParseIndicesSkippingBad(choice) ==
    LET Good(tok) == ParseInt(Strip(tok)).ok
        toks == SelectSeq(Split(choice), Good)
    IN [ok |-> TRUE,
        indices |-> [i \in 1..Len(toks) |-> ParseInt(Strip(toks[i])).val - 1]]

\* [int(i.strip()) - 1 for i in choice.split(',')]; ok = FALSE is ValueError
ParseIndices(choice) ==
    LET toks == Split(choice)
        p == [i \in 1..Len(toks) |-> ParseInt(Strip(toks[i]))]
    IN [ok |-> \A i \in DOMAIN p : p[i].ok,
        indices |-> [i \in 1..Len(toks) |-> p[i].val - 1]]

\* valid = [i for i in indices if 0 <= i < len(matches)]
ValidIndices(indices, m) ==
    LET Test(i) == 0 <= i /\ i < Len(m)
    IN SelectSeq(indices, Test)

\* the count printed after a numeric selection
DeletedCount(valid) == Len(valid)

\* one pass of the selection loop
DeleteChoice(inp) ==
    /\ pc = "del_choice"
    /\ input' = <<inp>>
    /\ LET choice == Lower(Strip(inp))
           r == ParseIndices(choice)
           valid == ValidIndices(r.indices, matches)
           to_delete == [i \in 1..Len(valid) |-> matches[valid[i] + 1]]
       IN IF choice = <<"c","a","n","c","e","l">>
          THEN /\ stdout' = Out("Deletion cancelled.", 0)
               /\ Return
               /\ UNCHANGED <<library, books>>
          ELSE IF choice = <<"a","l","l">>
          THEN /\ books' = Without(books, matches)
               /\ library' = save_books(books')
               /\ stdout' = Out("Deleted", Len(matches))
               /\ Return
          ELSE IF ~r.ok
          THEN /\ stdout' = Out("Invalid input.", 0)
               /\ UNCHANGED <<library, pc, books>>
          ELSE IF valid = <<>>
          THEN /\ stdout' = Out("No valid indices entered.", 0)
               /\ UNCHANGED <<library, pc, books>>
          ELSE /\ books' = Without(books, to_delete)
               /\ library' = save_books(books')
               /\ stdout' = Out("Deleted", DeletedCount(valid))
               /\ Return
    /\ UNCHANGED <<file, exported, AddLocals, DeleteLocals>>

-----------------------------------------------------------------------------
(* generate_reports *)

\* years: int(book['Year']) of every book whose Year is not '' and parses
RECURSIVE YearsOf(_)
YearsOf(bs) ==
    IF bs = <<>> THEN <<>>
    ELSE LET y == Head(bs).Year.s
         IN (IF y # <<>> /\ ParseInt(y).ok THEN <<ParseInt(y).val>> ELSE <<>>)
                \o YearsOf(Tail(bs))

Min(l) == CHOOSE x \in {l[i] : i \in DOMAIN l} : \A i \in DOMAIN l : x <= l[i]
Max(l) == CHOOSE x \in {l[i] : i \in DOMAIN l} : \A i \in DOMAIN l : x >= l[i]

\* [book for book in books if book['Year'] == str(y)]
BooksOfYear(bs, y) ==
    LET Test(b) == b.Year.s = IntToStr(y)
    IN SelectSeq(bs, Test)

\* the books counted in the average: Rating not '' and float() accepts it
RatedBooks(bs) ==
    LET Test(b) == b.Rating.s # <<>> /\ ParseFloat(b.Rating.s).ok
    IN SelectSeq(bs, Test)

\* menu choice 5 (the genre counts and the mean itself are not modelled)
generate_reports ==
    /\ pc = "menu"
    /\ input' = << <<"5">> >>
    /\ library' = StoreAfterLoad(library)
    /\ books' = load_books(library)
    /\ LET bs == books'
           years == YearsOf(bs)
       IN stdout' =
            IF bs = <<>> THEN Out("Your library is empty. No reports to generate.", 0)
            ELSE IF years # <<>>
            THEN [msg |-> "Oldest Book(s), Newest Book(s)",
                  n |-> Len(RatedBooks(bs)), listing |-> <<>>,
                  oldest |-> BooksOfYear(bs, Min(years)),
                  newest |-> BooksOfYear(bs, Max(years))]
            ELSE Out("No publication years available", Len(RatedBooks(bs)))
    /\ Return
    /\ UNCHANGED <<file, exported, AddLocals, DeleteLocals>>

-----------------------------------------------------------------------------
(* export_library, import_library *)

(* The model holds one user file; every non-empty file name denotes it.  A  *)
(* json file is a list of elements, each a dict or not; a txt file is its   *)
(* lines.                                                                   *)

JsonFile(objs) == [kind |-> "json", objs |-> objs, lines |-> <<>>]
TxtFile(lines) == [kind |-> "txt", objs |-> <<>>, lines |-> lines]
Dict(d) == [isDict |-> TRUE, d |-> d]
NotDict == [isDict |-> FALSE, d |-> <<>>]

FmtJson == <<"j","s","o","n">>
FmtTxt == <<"t","x","t">>

TitlePfx == <<"T","i","t","l","e",":"," ">>
AuthorPfx == <<"A","u","t","h","o","r",":"," ">>
YearPfx == <<"Y","e","a","r",":"," ">>
GenrePfx == <<"G","e","n","r","e",":"," ">>
RatingPfx == <<"R","a","t","i","n","g",":"," ">>

\* json.dump(books, f, indent=4)
ExportJson(bs) == JsonFile([i \in 1..Len(bs) |-> Dict(bs[i])])

\* the five labelled lines of every book and a blank line after them
RECURSIVE TxtLines(_)
TxtLines(bs) ==
    IF bs = <<>> THEN <<>>
    ELSE LET b == Head(bs)
         IN << TitlePfx \o b.Title.s, AuthorPfx \o b.Author.s,
               YearPfx \o b.Year.s, GenrePfx \o b.Genre.s,
               RatingPfx \o b.Rating.s, <<>> >> \o TxtLines(Tail(bs))

ExportTxt(bs) == TxtFile(TxtLines(bs))

\* menu choice 6
export_library(fmt_in, name_in) ==
    /\ pc = "menu"
    /\ library' = StoreAfterLoad(library)
    /\ books' = load_books(library)
    /\ LET bs == books'
           fmt == Lower(Strip(fmt_in))
           filename == Strip(name_in)
       IN IF bs = <<>>
          THEN /\ input' = << <<"6">> >>
               /\ stdout' = Out("Your library is empty. Nothing to export.", 0)
               /\ UNCHANGED <<file, exported>>
          ELSE IF fmt \notin {FmtJson, FmtTxt}
          THEN /\ input' = << <<"6">>, fmt_in >>
               /\ stdout' = Out("Invalid format. Use 'json' or 'txt'.", 0)
               /\ UNCHANGED <<file, exported>>
          ELSE IF filename = <<>>
          THEN /\ input' = << <<"6">>, fmt_in, name_in >>
               /\ stdout' = Out("Filename cannot be empty.", 0)
               /\ UNCHANGED <<file, exported>>
          ELSE /\ input' = << <<"6">>, fmt_in, name_in >>
               /\ file' = IF fmt = FmtJson THEN ExportJson(bs) ELSE ExportTxt(bs)
               /\ exported' = library.rows
               /\ stdout' = Out("exported successfully.", 0)
    /\ Return
    /\ UNCHANGED <<AddLocals, DeleteLocals>>

\* the json branch: the elements holding both keys, the three other keys
\* defaulting to ''
JsonGet(d, k) == IF k \in DOMAIN d THEN d[k] ELSE PyStr(<<>>)

\* a test that wants every field present and not ''
JsonKeepAllTruthy(d) == \A k \in Fields : k \in DOMAIN d /\ CsvField(d[k]) # <<>>

JsonKeep(d) == "Title" \in DOMAIN d /\ "Author" \in DOMAIN d

RECURSIVE JsonBooks(_)
JsonBooks(objs) ==
    IF objs = <<>> THEN <<>>
    ELSE LET d == Head(objs).d
         IN (IF JsonKeep(d)
             THEN << [Title |-> d["Title"], Author |-> d["Author"],
                      Year |-> JsonGet(d, "Year"), Genre |-> JsonGet(d, "Genre"),
                      Rating |-> JsonGet(d, "Rating")] >>
             ELSE <<>>) \o JsonBooks(Tail(objs))

\* the txt branch, one line at a time: the pending record and the result
TxtKeep(current) == "Title" \in DOMAIN current /\ "Author" \in DOMAIN current

Put(current, k, v) == (k :> PyStr(v)) @@ current

RECURSIVE TxtBooks(_, _, _)
TxtBooks(lines, current, new_books) ==
    IF lines = <<>>
    THEN IF DOMAIN current # {} /\ TxtKeep(current)
         THEN Append(new_books, current) ELSE new_books
    ELSE LET line == Strip(Head(lines))
             rest == Tail(lines)
             After(pfx) == SubSeq(line, Len(pfx) + 1, Len(line))
         IN IF StartsWith(line, TitlePfx)
            THEN TxtBooks(rest, Put(current, "Title", After(TitlePfx)), new_books)
            ELSE IF StartsWith(line, AuthorPfx)
            THEN TxtBooks(rest, Put(current, "Author", After(AuthorPfx)), new_books)
            ELSE IF StartsWith(line, YearPfx)
            THEN TxtBooks(rest, Put(current, "Year", After(YearPfx)), new_books)
            ELSE IF StartsWith(line, GenrePfx)
            THEN TxtBooks(rest, Put(current, "Genre", After(GenrePfx)), new_books)
            ELSE IF StartsWith(line, RatingPfx)
            THEN TxtBooks(rest, Put(current, "Rating", After(RatingPfx)), new_books)
            ELSE IF line = <<>>
            THEN TxtBooks(rest, <<>>,
                          IF TxtKeep(current) THEN Append(new_books, current)
                          ELSE new_books)
            ELSE TxtBooks(rest, current, new_books)

\* what the try block of import_library yields: ok = FALSE is an exception
\* (no such file, not JSON, an element that is no dict).  Read as text, a json
\* file has no blank line and no line starting with a label.
ReadImport(fmt, f) ==
    IF f.kind = "absent" THEN [ok |-> FALSE, new_books |-> <<>>]
    ELSE IF fmt = FmtJson
    THEN IF f.kind = "json" /\ \A i \in DOMAIN f.objs : f.objs[i].isDict
         THEN [ok |-> TRUE, new_books |-> JsonBooks(f.objs)]
         ELSE [ok |-> FALSE, new_books |-> <<>>]
    ELSE [ok |-> TRUE,
          new_books |-> TxtBooks(IF f.kind = "txt" THEN f.lines ELSE <<>>,
                                 <<>>, <<>>)]

\* an import that merges: records already in the store are not added again
CombinedDeduplicated(existing, new_books) ==
    LET Fresh(b) == \A i \in DOMAIN existing : CsvRow(existing[i]) # CsvRow(b)
    IN existing \o SelectSeq(new_books, Fresh)

\* combined = existing + new_books
Combined(existing, new_books) == existing \o new_books

\* the store import_library leaves once format and file name are accepted:
\* loaded (so created), and rewritten with the combined list unless the try
\* block raised
ImportStore(lib, fmt, f) ==
    IF ReadImport(fmt, f).ok
    THEN save_books(Combined(load_books(lib), ReadImport(fmt, f).new_books))
    ELSE StoreAfterLoad(lib)

\* menu choice 7
import_library(fmt_in, name_in) ==
    /\ pc = "menu"
    /\ LET fmt == Lower(Strip(fmt_in))
           filename == Strip(name_in)
           existing == load_books(library)
           r == ReadImport(fmt, file)
       IN IF fmt \notin {FmtJson, FmtTxt}
          THEN /\ input' = << <<"7">>, fmt_in >>
               /\ stdout' = Out("Invalid format. Use 'json' or 'txt'.", 0)
               /\ UNCHANGED library
          ELSE IF filename = <<>>
          THEN /\ input' = << <<"7">>, fmt_in, name_in >>
               /\ stdout' = Out("Filename cannot be empty.", 0)
               /\ UNCHANGED library
          ELSE IF ~r.ok
          THEN /\ input' = << <<"7">>, fmt_in, name_in >>
               /\ stdout' = Out("Error importing", 0)
               /\ library' = ImportStore(library, fmt, file)
          ELSE /\ Len(existing) + Len(r.new_books) <= MaxBooks
               /\ input' = << <<"7">>, fmt_in, name_in >>
               /\ library' = ImportStore(library, fmt, file)
               /\ stdout' = Out("Imported", Len(r.new_books))
    /\ Return
    /\ UNCHANGED <<file, exported, books, AddLocals, DeleteLocals>>

-----------------------------------------------------------------------------
(* main_menu *)

MenuChoices == { <<"1">>, <<"2">>, <<"3">>, <<"4">>, <<"5">>, <<"6">>, <<"7">>,
                 <<"8">> }

\* any other line
MenuInvalid(inp) ==
    /\ pc = "menu"
    /\ Strip(inp) \notin MenuChoices
    /\ input' = <<inp>>
    /\ stdout' = Out("Invalid choice.", 0)
    /\ UNCHANGED <<library, file, exported, pc, books, title, author, year, genre, search_term, matches>>

\* menu choice 8
MenuExit ==
    /\ pc = "menu"
    /\ input' = << <<"8">> >>
    /\ stdout' = Out("Goodbye!", 0)
    /\ pc' = "exited"
    /\ UNCHANGED <<library, file, exported, books, title, author, year, genre, search_term, matches>>

\* the program started: no store yet unless a run left one, the user's file f
InitWith(f) ==
    /\ library = NoStore
    /\ file = f
    /\ exported = <<>>
    /\ pc = "menu"
    /\ input = <<>>
    /\ stdout = Out("", 0)
    /\ books = <<>> /\ matches = <<>> /\ search_term = <<>>
    /\ title = <<>> /\ author = <<>> /\ genre = <<>> /\ year = PyStr(<<>>)

-----------------------------------------------------------------------------
(* Specification SpecAdd: add_book and the menu loop, every prompt with     *)
(* accepted and rejected answers                                            *)

AddTitles == { <<" ">>, <<" ","D","u"," ">> }
AddAuthors == { <<>>, <<"H","a">> }
AddYears == { <<>>, <<"x">>, <<"3","0","0","0">>, <<"-","5">>, <<"0","6","5">> }
AddGenres == { <<>>, <<"S","F"," ">> }
AddRatings == { <<>>, <<"x">>, <<"7">>, <<"-","0">>, <<"4",".","5">> }

InitAdd == InitWith(NoFile)

AddMenu == { <<"9">>, <<>> }

NextAdd ==
    \/ \E i \in AddMenu : MenuInvalid(i)
    \/ MenuExit
    \/ AddBegin
    \/ \E i \in AddTitles : AddTitle(i)
    \/ \E i \in AddAuthors : AddAuthor(i)
    \/ \E i \in AddYears : AddYear(i)
    \/ \E i \in AddGenres : AddGenre(i)
    \/ \E i \in AddRatings : AddRating(i)

SpecAdd == InitAdd /\ [][NextAdd]_vars

\* the decimal text of an integer in [0, current_year], or ''
YearTextOk(s) ==
    \/ s = <<>>
    \/ /\ AllDigits(s)
       /\ IntToStr(DigitsVal(s)) = s
       /\ DigitsVal(s) <= CurrentYear

\* the text of a number in [0.0, 5.0], or ''
RatingTextOk(s) ==
    \/ s = <<>>
    \/ /\ ParseFloat(s).ok
       /\ ParseFloat(s).mag <= 50
       /\ (ParseFloat(s).neg => ParseFloat(s).mag = 0)

\* C1: every record add_book persists has Year '' or the decimal text of an
\* integer in [0, current_year], and Rating '' or the text of a number in
\* [0.0, 5.0], whatever answers were rejected before.  (Under SpecAdd every
\* row of the store was persisted by add_book.)
C1_AddPersistsValidYearAndRating ==
    \A i \in DOMAIN library.rows :
        /\ YearTextOk(library.rows[i].Year)
        /\ RatingTextOk(library.rows[i].Rating)

-----------------------------------------------------------------------------
(* Specification SpecDelete: delete_book over stores built by add_book,     *)
(* with equal records, equal titles and titles sharing letters              *)

DelTitles == { <<"D","u">>, <<"a","d">> }
DelAuthors == { <<"H","a">> }
DelYears == { <<>>, <<"6","5">> }
DelGenres == { <<>> }
DelRatings == { <<>> }
\* "d" is in both titles, " DU" in one, "A" in one title and in every author,
\* "h" in no title
DelTerms == { <<"d">>, <<" ","D","U">>, <<"A">>, <<"h">> }
DelChoices == { <<"c","a","n","c","e","l">>, <<" ","A","l","l">>, <<"1">>,
                <<"1",",","1">>, <<"2",","," ","9">>, <<"1",",","x">>, <<"9">>,
                <<"0">>, <<>> }

NextDelete ==
    \/ AddBegin
    \/ \E i \in DelTitles : AddTitle(i)
    \/ \E i \in DelAuthors : AddAuthor(i)
    \/ \E i \in DelYears : AddYear(i)
    \/ \E i \in DelGenres : AddGenre(i)
    \/ \E i \in DelRatings : AddRating(i)
    \/ \E i \in DelTerms : DeleteBegin(i)
    \/ \E i \in DelChoices : DeleteChoice(i)

InitDelete == InitWith(NoFile)

SpecDelete == InitDelete /\ [][NextDelete]_vars

\* the answer read by a step of the selection loop, stripped and case folded
Answer(line) == Lower(Strip(line))
AnswerAll == <<"a","l","l">>
AnswerCancel == <<"c","a","n","c","e","l">>

\* the rows whose Title does not hold t, case ignored, in order
RowsWithoutTitle(rows, t) ==
    LET Test(r) == ~Contains(Lower(t), Lower(r.Title))
    IN SelectSeq(rows, Test)

\* C5: delete answered by 'all' leaves exactly the records whose Title does
\* not contain the term (case-insensitive substring), in their order: every
\* Title match is removed, nothing else is, whatever the other fields hold.
C5_DeleteAllRemovesExactlyTitleMatches ==
    [][(pc = "del_choice" /\ Answer(input'[1]) = AnswerAll)
         => library'.rows = RowsWithoutTitle(library.rows, search_term)]_vars

\* 'all' with the term "a" removed the one record titled "ad" and kept the
\* record titled "Du", whose Author holds the term
C5_Witness ==
    /\ pc = "menu" /\ stdout.msg = "Deleted" /\ Answer(input[1]) = AnswerAll
    /\ search_term = <<"a">>
    /\ Len(matches) = 1 /\ matches[1].Title.s = <<"a","d">>
    /\ Len(library.rows) = 1
    /\ library.rows[1].Title = <<"D","u">>
    /\ Contains(search_term, Lower(library.rows[1].Author))

\* the tokens of a numeric answer, and the 1-based indices it selects among n
\* matches
Tokens(line) == Split(Answer(line))
AllIntegers(line) ==
    \A i \in DOMAIN Tokens(line) : ParseInt(Strip(Tokens(line)[i])).ok
Selected(line, n) ==
    { ParseInt(Strip(Tokens(line)[i])).val : i \in DOMAIN Tokens(line) }
        \cap (1..n)
IsNumericSelection(line, n) ==
    /\ Answer(line) \notin {AnswerAll, AnswerCancel}
    /\ AllIntegers(line)
    /\ Selected(line, n) # {}

\* the rows equal to none of the selected matches, in order
RowsWithoutSelected(rows, m, sel) ==
    LET Test(r) == \A k \in sel : r # CsvRow(m[k])
    IN SelectSeq(rows, Test)

\* C6: a numeric list with at least one valid index removes every record
\* equal in all five fields to a selected match (all copies of it), keeps every
\* other record in order, and ignores the indices out of range.
C6_DeleteSelectedRemovesAllEqualRecords ==
    [][(pc = "del_choice" /\ IsNumericSelection(input'[1], Len(matches)))
         => library'.rows =
              RowsWithoutSelected(library.rows, matches,
                                  Selected(input'[1], Len(matches)))]_vars

\* answer "2, 9" on matches of which the first two are equal: 9 is ignored
\* and both copies are gone, though only the second was selected
C6_Witness ==
    /\ pc = "menu" /\ stdout.msg = "Deleted"
    /\ input = << <<"2",","," ","9">> >>
    /\ Len(matches) >= 2 /\ matches[1] = matches[2]
    /\ \A i \in DOMAIN library.rows : library.rows[i] # CsvRow(matches[2])

\* C7: delete changes the store only on 'all' or on a numeric list with a
\* valid index.  No Title match, 'cancel', a list with a non-integer token
\* (even beside valid indices) and a list of out-of-range indices leave the
\* store as it was; the last two ask again instead of returning, so a later
\* 'cancel' still leaves it unchanged.
C7_DeleteLeavesStoreUnlessSelection ==
    [][/\ (pc = "menu" /\ Len(input') = 2 /\ input'[1] = <<"4">>)
          => /\ library'.rows = library.rows
             /\ RowsWithoutTitle(library.rows, Answer(input'[2])) = library.rows
                  => pc' = "menu"
       /\ (pc = "del_choice" /\ Answer(input'[1]) = AnswerCancel)
          => (pc' = "menu" /\ library' = library)
       /\ (pc = "del_choice" /\ Answer(input'[1]) \notin {AnswerAll, AnswerCancel}
             /\ (~AllIntegers(input'[1]) \/ Selected(input'[1], Len(matches)) = {}))
          => (pc' = "del_choice" /\ library' = library /\ matches' = matches)
       /\ (pc = "del_choice" /\ library' # library)
          => (Answer(input'[1]) = AnswerAll
                \/ IsNumericSelection(input'[1], Len(matches)))]_vars

\* '1,x' was rejected: the selection is asked for again, nothing was removed
C7_Witness ==
    /\ pc = "del_choice" /\ stdout.msg = "Invalid input."
    /\ input = << <<"1",",","x">> >>
    /\ library.rows = [i \in 1..Len(books) |-> CsvRow(books[i])]
    /\ matches # <<>>

\* C8: the count delete reports is the number of records removed from the
\* store, for 'all' and for every numeric selection.
C8_DeleteReportsRemovedCount ==
    [][(pc = "del_choice" /\ stdout'.msg = "Deleted")
         => stdout'.n = Len(library.rows) - Len(library'.rows)]_vars

-----------------------------------------------------------------------------
(* Specification SpecImport: import_library from files the user supplies,   *)
(* with add_book, delete_book and the read-only handlers around it          *)

\* kept: both keys, though Title and Author are ''; Genre null, Rating a
\* number.  Skipped: no Author.
SampleJson ==
    JsonFile(<< Dict([Title |-> PyStr(<<>>), Author |-> PyStr(<<>>),
                      Year |-> PyStr(<<"7">>), Genre |-> PyNone,
                      Rating |-> PyInt(5)]),
                Dict([Title |-> PyStr(<<"D","u">>)]) >>)

\* a block without Author, a blank line, then an unterminated block with
\* Title and Author whose Title is given twice and whose Year is 007
SampleTxt ==
    TxtFile(<< TitlePfx \o <<"a","d">>, YearPfx \o <<"6","5">>, <<>>,
               <<" ">> \o AuthorPfx \o <<"H","a">>, TitlePfx \o <<"x">>,
               <<"n","o","t","e">>, TitlePfx \o <<"a","d">>,
               YearPfx \o <<"0","0","7">>, RatingPfx \o <<"4",".","5">> >>)

\* a list whose second element is no dict
SampleBadJson ==
    JsonFile(<< Dict([Title |-> PyStr(<<"D","u">>), Author |-> PyStr(<<"H","a">>)]),
                NotDict >>)

ImpFiles == { NoFile, SampleJson, SampleTxt, SampleBadJson }
ImpFormats == { <<" ","J","S","O","N">>, <<"t","x","t">>, <<"c","s","v">> }
ImpNames == { <<" ">>, <<"f">> }
ImpTitles == { <<"D","u">> }
ImpAuthors == { <<"H","a">> }
ImpYears == { <<"6","5">> }
ImpGenres == { <<>> }
ImpRatings == { <<>> }
ImpTerms == { <<>>, <<"A">> }
ImpChoices == { <<"a","l","l">>, <<"1">>, <<"c","a","n","c","e","l">> }

InitImport == \E f \in ImpFiles : InitWith(f)

NextImport ==
    \/ AddBegin
    \/ \E i \in ImpTitles : AddTitle(i)
    \/ \E i \in ImpAuthors : AddAuthor(i)
    \/ \E i \in ImpYears : AddYear(i)
    \/ \E i \in ImpGenres : AddGenre(i)
    \/ \E i \in ImpRatings : AddRating(i)
    \/ list_books
    \/ \E i \in ImpTerms : search_books(i)
    \/ \E i \in ImpTerms : DeleteBegin(i)
    \/ \E i \in ImpChoices : DeleteChoice(i)
    \/ generate_reports
    \/ \E f \in ImpFormats, n \in ImpNames : import_library(f, n)

SpecImport == InitImport /\ [][NextImport]_vars

\* C2: after any sequence of add, delete and import from an empty or absent
\* store, every persisted record has a non-empty Title and a non-empty Author.
C2_TitleAndAuthorNonEmpty ==
    \A i \in DOMAIN library.rows :
        library.rows[i].Title # <<>> /\ library.rows[i].Author # <<>>

\* C4: list and search leave the persisted collection as it was, same records
\* in the same order; an absent store becomes the header-only store, an
\* existing one is untouched.
C4_ListAndSearchReadOnly ==
    [][(pc = "menu" /\ input' # <<>> /\ input'[1] \in { <<"2">>, <<"3">> })
         => /\ library'.rows = library.rows
            /\ library'.exists
            /\ library.exists => library' = library]_vars

\* a search that found something in a store of two records
C4_Witness ==
    /\ pc = "menu" /\ input # <<>> /\ input[1] = <<"3">>
    /\ stdout.msg = "Found"
    /\ Len(library.rows) >= 2

\* the text the store holds for a value of an imported record
TextOf(v) == IF v.t = "str" THEN v.s ELSE IF v.t = "int" THEN IntToStr(v.n) ELSE <<>>

\* json: the elements holding both keys, in order, as rows
HasBoth(d) == {"Title", "Author"} \subseteq DOMAIN d
ExpectedJsonRows(objs) ==
    LET Keep(o) == HasBoth(o.d)
        kept == SelectSeq(objs, Keep)
    IN [i \in 1..Len(kept) |->
          [k \in Fields |-> IF k \in DOMAIN kept[i].d THEN TextOf(kept[i].d[k])
                            ELSE <<>>]]

\* txt: the file cut into blocks at its blank lines; a block with a Title and
\* an Author line gives a row holding, per label, the text of the block's last
\* line with that label
Label(k) ==
    CASE k = "Title" -> TitlePfx [] k = "Author" -> AuthorPfx
      [] k = "Year" -> YearPfx [] k = "Genre" -> GenrePfx
      [] OTHER -> RatingPfx
\* the label a line carries: the first one, in the order the code tests them,
\* that the line starts with
LabelOf(line) ==
    IF \E k \in Fields : StartsWith(line, Label(k))
    THEN CHOOSE k \in Fields : StartsWith(line, Label(k))
    ELSE "none"
RECURSIVE Blocks(_, _)
Blocks(lines, cur) ==
    IF lines = <<>> THEN <<cur>>
    ELSE IF Strip(Head(lines)) = <<>> THEN <<cur>> \o Blocks(Tail(lines), <<>>)
    ELSE Blocks(Tail(lines), Append(cur, Strip(Head(lines))))
BlockRow(b) ==
    [k \in Fields |->
       IF \E i \in DOMAIN b : LabelOf(b[i]) = k
       THEN LET last == CHOOSE i \in DOMAIN b :
                            /\ LabelOf(b[i]) = k
                            /\ \A j \in DOMAIN b : LabelOf(b[j]) = k => j <= i
            IN SubSeq(b[last], Len(Label(k)) + 1, Len(b[last]))
       ELSE <<>>]
ExpectedTxtRows(lines) ==
    LET Keep(b) == /\ \E i \in DOMAIN b : LabelOf(b[i]) = "Title"
                   /\ \E i \in DOMAIN b : LabelOf(b[i]) = "Author"
        kept == SelectSeq(Blocks(lines, <<>>), Keep)
    IN [i \in 1..Len(kept) |-> BlockRow(kept[i])]

ExpectedRows(fmt, f) ==
    IF Answer(fmt) = FmtJson THEN ExpectedJsonRows(f.objs)
    ELSE ExpectedTxtRows(f.lines)

\* C9: a successful import persists the records persisted before, unchanged
\* and in order, followed by the imported records that have Title and Author,
\* in file order, nothing merged or dropped: the store grows by the number
\* import reports.
C9_ImportAppends ==
    [][(pc = "menu" /\ Len(input') = 3 /\ input'[1] = <<"7">>
          /\ stdout'.msg = "Imported")
         => /\ library'.rows = library.rows \o ExpectedRows(input'[2], file)
            /\ Len(library'.rows) = Len(library.rows) + stdout'.n]_vars

\* a txt import that added its one complete record behind an existing, equal
\* one
C9_Witness ==
    /\ pc = "menu" /\ stdout.msg = "Imported" /\ stdout.n = 1
    /\ Answer(input[2]) = FmtTxt /\ file.kind = "txt"
    /\ Len(library.rows) >= 2
    /\ library.rows[Len(library.rows)] = library.rows[Len(library.rows) - 1]
    /\ library.rows[Len(library.rows)].Title = <<"a","d">>
    /\ library.rows[Len(library.rows)].Rating = <<"4",".","5">>

\* the years of the rows whose Year is not '' and parses as an integer
ParsedYears(rows) ==
    { ParseInt(rows[i].Year).val :
        i \in { j \in DOMAIN rows : rows[j].Year # <<>> /\ ParseInt(rows[j].Year).ok } }

ListsAllOfYear(listing, rows, y) ==
    \A i \in DOMAIN rows :
        (rows[i].Year # <<>> /\ ParseInt(rows[i].Year).ok
           /\ ParseInt(rows[i].Year).val = y)
        => \E j \in DOMAIN listing : CsvRow(listing[j]) = rows[i]

\* C10: when some record's Year parses as an integer, the report's oldest
\* listing holds every record whose Year parses to the least parsed year and
\* its newest listing every record whose Year parses to the greatest, so
\* neither is empty.
C10_ReportListsExtremes ==
    (pc = "menu" /\ input = << <<"5">> >> /\ ParsedYears(library.rows) # {})
    => /\ stdout.oldest # <<>> /\ stdout.newest # <<>>
       /\ \A y \in ParsedYears(library.rows) :
            /\ (\A z \in ParsedYears(library.rows) : y <= z)
                 => ListsAllOfYear(stdout.oldest, library.rows, y)
            /\ (\A z \in ParsedYears(library.rows) : y >= z)
                 => ListsAllOfYear(stdout.newest, library.rows, y)

-----------------------------------------------------------------------------
(* Specification SpecExport: stores built by add_book are exported, emptied *)
(* by delete_book and filled again by import_library                        *)

ExpTitles == { <<"D","u">> }
ExpAuthors == { <<"H","a">> }
ExpYears == { <<>>, <<"3","0","0","0">> }
ExpGenres == { <<>> }
ExpRatings == { <<"4",".","5">> }
ExpFormats == { <<"J","S","O","N"," ">>, <<"x","m","l">> }
ExpNames == { <<" ">>, <<"f">> }
ExpTerms == { <<>> }
ExpChoices == { <<"a","l","l">> }

InitExport == InitWith(NoFile)

NextExport ==
    \/ AddBegin
    \/ \E i \in ExpTitles : AddTitle(i)
    \/ \E i \in ExpAuthors : AddAuthor(i)
    \/ \E i \in ExpYears : AddYear(i)
    \/ \E i \in ExpGenres : AddGenre(i)
    \/ \E i \in ExpRatings : AddRating(i)
    \/ \E f \in ExpFormats, n \in ExpNames : export_library(f, n)
    \/ \E i \in ExpTerms : DeleteBegin(i)
    \/ \E i \in ExpChoices : DeleteChoice(i)
    \/ \E f \in ExpFormats, n \in ExpNames : import_library(f, n)

SpecExport == InitExport /\ [][NextExport]_vars

\* C3: a non-empty collection built by add, exported as json and imported
\* into an empty store, gives a store with the same records, five fields each,
\* as often and in the same order.  (Under SpecExport the only json file is
\* the one export_library wrote.)
C3_JsonRoundTrip ==
    [][(pc = "menu" /\ library.rows = <<>> /\ file.kind = "json"
          /\ Len(input') = 3 /\ input'[1] = <<"7">> /\ Answer(input'[2]) = FmtJson
          /\ stdout'.msg \in {"Imported", "Error importing"})
         => (stdout'.msg = "Imported" /\ exported # <<>>
               /\ library'.rows = exported)]_vars

\* two different records, the first with the Year 3000, came back in order
\* from a json export into the emptied store
C3_Witness ==
    /\ pc = "menu" /\ stdout.msg = "Imported" /\ Answer(input[2]) = FmtJson
    /\ file.kind = "json"
    /\ stdout.n = Len(library.rows) /\ Len(library.rows) >= 2
    /\ library.rows = exported
    /\ library.rows[1] # library.rows[2]
    /\ library.rows[1].Year = <<"3","0","0","0">>

====
